---- MODULE Spec2Model ----
(***************************************************************************)
(* Model of the PubChem lookup server (src/pubchem_server.py):             *)
(*   - search_by_name_with_retries: the two-domain lookup with retries,    *)
(*     run in a worker thread, one step per upstream call or sleep;        *)
(*   - search_compounds_by_name: the batch coroutine, one step per run     *)
(*     between two awaits;                                                 *)
(*   - the caller, who invokes batches and may cancel them at an await.    *)
(* The upstream service is an adversary: every call may return any of a    *)
(* small set of responses or raise any of a small set of exceptions.       *)
(***************************************************************************)
EXTENDS Integers, Sequences, FiniteSets, TLC

\* ------------------------------------------------------------------ bounds
MaxNames == 2            \* longest input list of a batch
NumBatches == 2          \* batch slots (concurrent tool invocations)
MaxAttemptsBound == 3    \* largest max_retries of a direct lookup call

\* ------------------------------------------------------- program constants
DEFAULT_MAX_RETRIES == 3
DEFAULT_RETRY_DELAY == 5
PAUSE_BETWEEN_REQUESTS == 2

\* -------------------------------------------------------------------- data
Names == {"Aspirin", "Hydroxocobalamin"}
CidValues == {2244}
Batches == 1..NumBatches
Positions == 1..MaxNames

\* Python's None / a present value, as a sequence of length 0 / 1.
None == <<>>
Some(v) == <<v>>

\* Python truthiness of an optional integer (None and 0 are falsy).
Truthy(c) == c # None /\ c # Some(0)

NameLists == UNION {[1..n -> Names] : n \in 0..MaxNames}

\* ---------------------------------------------------- upstream exceptions
\* An exception is its class and its text, the text a sequence of phrases.
HTTPErrors ==
    { [cls |-> "PubChemHTTPError", text |-> <<"PUGREST.ServerBusy", "Server Busy">>],
      [cls |-> "PubChemHTTPError", text |-> <<"503", "Service Unavailable">>],
      [cls |-> "PubChemHTTPError", text |-> <<"PUGREST.BadRequest">>] }
OtherErrors ==
    { [cls |-> "Exception", text |-> <<"503", "proxy connection failed">>] }
Exceptions == HTTPErrors \cup OtherErrors

\* What the upstream meant by an exception: "busy" is its transient
\* busy / rate-limit signal (status 503), "http" any other HTTP error.
Signal(e) ==
    IF e.cls # "PubChemHTTPError" THEN "exc"
    ELSE IF e.text[1] \in {"PUGREST.ServerBusy", "503"} THEN "busy"
    ELSE "http"

\* 'phrase' in str(e)
InText(phrase, e) == \E k \in 1..Len(e.text) : e.text[k] = phrase

\* The handler an exception reaches in search_by_name_with_retries.
BusyAsAnyHTTPError(e) == e.cls = "PubChemHTTPError"
IsBusy(e) ==
    /\ e.cls = "PubChemHTTPError"
    /\ (InText("Server Busy", e) \/ InText("503", e))

\* ----------------------------------------------------- upstream responses
\* pcp.get_compounds(..., max_records=1): a list of at most one compound.
PrimaryResults ==
    {<<>>} \cup {<<[cid |-> None]>>} \cup {<<[cid |-> Some(c)]>> : c \in CidValues}

\* pcp.get_cids(name, 'name', 'substance'): a list of entries; an entry may
\* lack the 'CID' key or carry an empty list.
SecondaryEntries ==
    {[SID |-> 1], [SID |-> 1, CID |-> <<>>]}
        \cup {[SID |-> 1, CID |-> <<c>>] : c \in CidValues}
SecondaryResults ==
    {<<>>} \cup {<<e>> : e \in SecondaryEntries}
           \cup {<<e1, e2>> : e1 \in SecondaryEntries, e2 \in SecondaryEntries}

\* pcp.Compound.from_cid(cid): the compound's to_dict() properties, or a
\* falsy compound, or a compound whose to_dict() raises.
KeysToEnsure ==
    {"cid", "iupac_name", "molecular_formula", "molecular_weight",
     "monoisotopic_mass", "synonyms", "charge"}
FullProps(c) ==
    [k \in KeysToEnsure \cup {"atoms"} |-> IF k = "cid" THEN Some(c) ELSE Some(1)]
CidOnlyProps(c) == [k \in {"cid"} |-> Some(c)]
FetchResults(c) ==
    { [kind |-> "compound", props |-> FullProps(c)],
      [kind |-> "compound", props |-> CidOnlyProps(c)],
      [kind |-> "falsy"],
      [kind |-> "to_dict_raises"] }

PrimaryResponses ==
    {[ret |-> x] : x \in PrimaryResults} \cup {[raise |-> e] : e \in Exceptions}
SecondaryResponses ==
    {[ret |-> x] : x \in SecondaryResults} \cup {[raise |-> e] : e \in Exceptions}
FetchResponses(c) ==
    {[ret |-> x] : x \in FetchResults(c)} \cup {[raise |-> e] : e \in Exceptions}

Raises(r) == "raise" \in DOMAIN r

\* --------------------------------------------------------------- transport
\* The [proxy] section of config.ini.  The file created when none exists
\* holds DefaultSettings.
DefaultSettings ==
    [use_proxy |-> FALSE, proxy_type |-> "socks5h", host |-> "127.0.0.1", port |-> 9050]
ProxyEndpoints ==
    { [proxy_type |-> "socks5h", host |-> "127.0.0.1", port |-> 9050],
      [proxy_type |-> "HTTP", host |-> "host.docker.internal", port |-> 8118],
      [proxy_type |-> "ftp", host |-> "127.0.0.1", port |-> 9050] }
SettingsChoices ==
    { [use_proxy |-> u, proxy_type |-> e.proxy_type, host |-> e.host, port |-> e.port] :
        u \in BOOLEAN, e \in ProxyEndpoints }

\* str.lower() on the proxy types above
Lower(str) == IF str = "HTTP" THEN "http" ELSE str

ValidProxyTypes == {"socks5h", "socks5", "http", "https"}

\* Variant of EffectiveType: the configured type is used unchecked.
EffectiveTypeUnchecked(proxy_type) == proxy_type

\* an invalid proxy_type is replaced by socks5h
EffectiveType(proxy_type) ==
    IF proxy_type \notin ValidProxyTypes THEN "socks5h" ELSE proxy_type

\* f'{proxy_type}://{proxy_host}:{proxy_port}'
ProxyURL(proxy_type, proxy_host, proxy_port) ==
    [scheme |-> proxy_type, host |-> proxy_host, port |-> proxy_port]

\* Variant of BuildProxies: the proxy dict is built whatever use_proxy says.
BuildProxiesIgnoresSwitch(st) ==
    LET url == ProxyURL(EffectiveType(Lower(st.proxy_type)), st.host, st.port)
    IN  Some([http |-> url, https |-> url])

\* The module-level global proxies after config.ini has been read:
\* None unless use_proxy, else the dict for both URL schemes.
BuildProxies(st) ==
    IF st.use_proxy
    THEN LET url == ProxyURL(EffectiveType(Lower(st.proxy_type)), st.host, st.port)
         IN  Some([http |-> url, https |-> url])
    ELSE None

\* requests.get("https://check.torproject.org/", proxies=proxies, timeout=30):
\* the page with or without the confirmation text, or a RequestException.
CheckOutcomes ==
    {"confirmed", "unconfirmed", "Timeout", "ConnectionError", "InvalidSchema", "HTTPError"}

\* Variant of AfterProxyCheck: a failed check falls back to a direct connection.
AfterProxyCheckFallsBack(p, outcome) ==
    IF outcome \in {"confirmed", "unconfirmed"}
    THEN [boot |-> "ready", proxies |-> p]
    ELSE [boot |-> "ready", proxies |-> None]

\* Every outcome of the check is only logged: startup goes on with the
\* proxies it has built.
AfterProxyCheck(p, outcome) == [boot |-> "ready", proxies |-> p]

\* ---------------------------------------------------------------- outcomes
\* A failure outcome is the dict {"error": ..., "compound_name": ...}; the
\* error text is kept as its format string and the values substituted.
NotFoundOutcome(name) ==
    [error |-> [fmt |-> "Compound '{name}' not found in PubChem.", name |-> name],
     compound_name |-> name]
ProcessErrorOutcome(name, cid) ==
    [error |-> [fmt |-> "Could not process full record for '{name}' (CID: {cid}).",
                name |-> name, cid |-> cid],
     compound_name |-> name]
HTTPErrorOutcome(name) ==
    [error |-> [fmt |-> "Compound '{name}' not found in PubChem (HTTP Error).",
                name |-> name],
     compound_name |-> name]
GeneralErrorOutcome(name, e) ==
    [error |-> [fmt |-> "General error for '{name}': {str(e)}",
                name |-> name, e |-> e.text],
     compound_name |-> name]
ExhaustedOutcome(name, max_retries) ==
    [error |-> [fmt |-> "Failed to get data for '{name}' after {max_retries} retries.",
                name |-> name, max_retries |-> max_retries],
     compound_name |-> name]

\* Variant of compound_to_dict: the properties are returned as they come.
compound_to_dict_unprojected(compound) ==
    IF compound.kind = "falsy" THEN None
    ELSE IF compound.kind = "to_dict_raises" THEN None
    ELSE Some(compound.props)

\* compound_to_dict: None for a falsy compound or a failing to_dict(),
\* otherwise the projection of the properties onto keys_to_ensure.
compound_to_dict(compound) ==
    IF compound.kind = "falsy" THEN None
    ELSE IF compound.kind = "to_dict_raises" THEN None
    ELSE Some([key \in KeysToEnsure |->
                 IF key \in DOMAIN compound.props THEN compound.props[key] ELSE None])

\* result_dict['search_term'] = name
WithSearchTerm(d, name) ==
    [key \in DOMAIN d \cup {"search_term"} |->
        IF key = "search_term" THEN name ELSE d[key]]

\* ------------------------------------------------------------------- state
VARIABLES
    slots,        \* how many simultaneous tool invocations the host permits
    settings,     \* the [proxy] section of config.ini
    boot,         \* module start-up: "start", "check", "ready"
    proxies,      \* the global proxies: None or Some(dict)
    loop,         \* the batch whose coroutine holds the event loop, 0 if none
    names,        \* names[b]: the argument of batch b
    pc,           \* pc[b]: "idle", "await_thread", "await_sleep", "done", "cancelled"
    all_results,  \* all_results[b]: the list the coroutine builds and returns
    paused,       \* paused[b]: seconds of pacing sleep completed by batch b
    thr           \* thr[b][i]: the worker thread looking up names[b][i]

\* what the process is given or sets up before it serves
host == <<slots, settings, boot, proxies>>

\* ------------------------------------------------- the lookup, one thread
\* pc: "idle" (not started), "primary" / "secondary" / "fetch" (about to
\* make that upstream call), "sleep" (in time.sleep(retry_delay)),
\* "returned" (the function has returned result[1]), "joined" (the batch
\* has taken the result).  attempt is the loop variable (0-based).  log is
\* the history of upstream calls and sleeps of this lookup.
IdleThread ==
    [pc |-> "idle", name |-> "", max_retries |-> 0, retry_delay |-> 0,
     attempt |-> 0, cid |-> None, result |-> None, log |-> <<>>]
JoinedThread == [IdleThread EXCEPT !.pc = "joined"]

\* An entry of the history: the call, its attempt, how it ended and the
\* proxies argument it was made with (every call passes proxies=proxies).
Logged(t, op, res) ==
    [t EXCEPT !.log = Append(@, [op |-> op, attempt |-> t.attempt + 1, res |-> res,
                                 proxies |-> IF op = "sleep" THEN None ELSE proxies])]

\* The entry of a substance query that returned: any_id tells whether some
\* entry of the answer, at whatever position, lists an identifier.
AnyCid(cids_from_substance) ==
    \E k \in 1..Len(cids_from_substance) :
        /\ "CID" \in DOMAIN cids_from_substance[k]
        /\ Len(cids_from_substance[k].CID) > 0
LoggedSecondary(t, res, cids_from_substance) ==
    [t EXCEPT !.log = Append(@, [op |-> "secondary", attempt |-> t.attempt + 1,
                                 res |-> res, proxies |-> proxies,
                                 any_id |-> AnyCid(cids_from_substance)])]

Return(t, outcome) == [t EXCEPT !.pc = "returned", !.result = Some(outcome)]

\* Variant of LoopFrom: the loop runs one attempt short.
LoopFromOneShort(t, attempt) ==
    IF attempt + 1 < t.max_retries \/ attempt = 0
    THEN [t EXCEPT !.pc = "primary", !.attempt = attempt, !.cid = None]
    ELSE Return(t, ExhaustedOutcome(t.name, t.max_retries))

\* for attempt in range(max_retries): enter the body or fall out of the loop
LoopFrom(t, attempt) ==
    IF attempt < t.max_retries
    THEN [t EXCEPT !.pc = "primary", !.attempt = attempt, !.cid = None]
    ELSE Return(t, ExhaustedOutcome(t.name, t.max_retries))

StartThread(name, max_retries, retry_delay) ==
    LoopFrom([IdleThread EXCEPT !.name = name, !.max_retries = max_retries,
                                !.retry_delay = retry_delay], 0)

\* Variants of Handle: an exception that is not a PubChemHTTPError leaves
\* the function; an HTTP error that is not busy is reported as not found.
HandleOnlyHTTPErrors(t, e) ==
    IF IsBusy(e) THEN [t EXCEPT !.pc = "sleep"]
    ELSE IF e.cls = "PubChemHTTPError" THEN Return(t, HTTPErrorOutcome(t.name))
    ELSE [t EXCEPT !.pc = "raised"]

HandleHTTPAsNotFound(t, e) ==
    IF IsBusy(e) THEN [t EXCEPT !.pc = "sleep"]
    ELSE IF e.cls = "PubChemHTTPError" THEN Return(t, NotFoundOutcome(t.name))
    ELSE Return(t, GeneralErrorOutcome(t.name, e))

\* the except clauses
Handle(t, e) ==
    IF IsBusy(e) THEN [t EXCEPT !.pc = "sleep"]
    ELSE IF e.cls = "PubChemHTTPError" THEN Return(t, HTTPErrorOutcome(t.name))
    ELSE Return(t, GeneralErrorOutcome(t.name, e))

PrimaryCid(compounds) ==
    IF Len(compounds) > 0 /\ Truthy(compounds[1].cid) THEN compounds[1].cid ELSE None

SecondaryCid(cids_from_substance) ==
    IF Len(cids_from_substance) > 0
    THEN LET first_result == cids_from_substance[1] IN
         IF "CID" \in DOMAIN first_result /\ Len(first_result.CID) > 0
         THEN Some(first_result.CID[1]) ELSE None
    ELSE None

\* Variant of DoPrimary: the substance fallback is not guarded by "if not cid".
DoPrimaryAlwaysFallsBack(t, r) ==
    IF Raises(r) THEN Handle(Logged(t, "primary", Signal(r.raise)), r.raise)
    ELSE LET cid == PrimaryCid(r.ret) IN
         IF Truthy(cid)
         THEN [Logged(t, "primary", "id") EXCEPT !.cid = cid, !.pc = "secondary"]
         ELSE [Logged(t, "primary", "noid") EXCEPT !.pc = "secondary"]

DoPrimary(t, r) ==
    IF Raises(r) THEN Handle(Logged(t, "primary", Signal(r.raise)), r.raise)
    ELSE LET cid == PrimaryCid(r.ret) IN
         IF Truthy(cid)
         THEN [Logged(t, "primary", "id") EXCEPT !.cid = cid, !.pc = "fetch"]
         ELSE [Logged(t, "primary", "noid") EXCEPT !.pc = "secondary"]

\* Variant of DoSecondary: an empty answer of both domains is retried like
\* a busy server.
DoSecondaryRetriesNotFound(t, r) ==
    IF Raises(r) THEN Handle(Logged(t, "secondary", Signal(r.raise)), r.raise)
    ELSE LET cid == SecondaryCid(r.ret) IN
         IF Truthy(cid)
         THEN [LoggedSecondary(t, "id", r.ret) EXCEPT !.cid = cid, !.pc = "fetch"]
         ELSE [LoggedSecondary(t, "noid", r.ret) EXCEPT !.pc = "sleep"]

DoSecondary(t, r) ==
    IF Raises(r) THEN Handle(Logged(t, "secondary", Signal(r.raise)), r.raise)
    ELSE LET cid == SecondaryCid(r.ret) IN
         IF Truthy(cid)
         THEN [LoggedSecondary(t, "id", r.ret) EXCEPT !.cid = cid, !.pc = "fetch"]
         ELSE Return(LoggedSecondary(t, "noid", r.ret), NotFoundOutcome(t.name))

DoFetch(t, r) ==
    IF Raises(r) THEN Handle(Logged(t, "fetch", Signal(r.raise)), r.raise)
    ELSE LET result_dict == compound_to_dict(r.ret) IN
         IF result_dict # None
         THEN Return(Logged(t, "fetch", "ok"),
                     WithSearchTerm(result_dict[1], t.name))
         ELSE Return(Logged(t, "fetch", "unusable"),
                     ProcessErrorOutcome(t.name, t.cid[1]))

\* Variant of DoRetrySleep: the sleep never ends.
DoRetrySleepNeverEnds(t) == t

\* time.sleep(retry_delay) ends; continue
DoRetrySleep(t) == LoopFrom(Logged(t, "sleep", "slept"), t.attempt + 1)

vars == <<host, loop, names, pc, all_results, paused, thr>>

NoThreads == [b \in Batches |-> [i \in Positions |-> IdleThread]]

\* The server as it serves after a start with the config.ini it creates
\* itself (proxy disabled), one tool invocation at a time.
Init ==
    /\ slots = 1
    /\ settings = DefaultSettings
    /\ boot = "ready"
    /\ proxies = BuildProxies(DefaultSettings)
    /\ loop = 0
    /\ names = [b \in Batches |-> <<>>]
    /\ pc = [b \in Batches |-> "idle"]
    /\ all_results = [b \in Batches |-> <<>>]
    /\ paused = [b \in Batches |-> 0]
    /\ thr = NoThreads

\* ------------------------------------------------------------ the event loop
\* Coroutines run on one event loop: a coroutine runs only while no other
\* one holds the loop.
CanRun(b) == loop \in {0, b}

\* Variant of Suspend: the wait blocks the event loop (a lookup or a
\* time.sleep called in the coroutine itself).
SuspendHoldsLoop(b) == loop' = b

\* "await": the coroutine of batch b is suspended and gives up the loop.
Suspend(b) == loop' = 0

\* ------------------------------------------------- the batch, one coroutine
\* Variants of LoopTop: the loop leaves out the last name; the loop hands
\* the next two names to worker threads at once.
LoopTopDropsLast(b, ns, k) ==
    IF k + 1 < Len(ns)
    THEN /\ pc' = [pc EXCEPT ![b] = "await_thread"]
         /\ thr' = [thr EXCEPT ![b][k + 1] =
                       StartThread(ns[k + 1], DEFAULT_MAX_RETRIES, DEFAULT_RETRY_DELAY)]
         /\ Suspend(b)
    ELSE /\ pc' = [pc EXCEPT ![b] = "done"]
         /\ thr' = thr
         /\ loop' = 0

LoopTopStartsTwo(b, ns, k) ==
    IF k < Len(ns)
    THEN /\ pc' = [pc EXCEPT ![b] = "await_thread"]
         /\ thr' = [thr EXCEPT ![b] =
                [i \in Positions |->
                    IF i \in {k + 1, k + 2} /\ i <= Len(ns) /\ thr[b][i].pc = "idle"
                    THEN StartThread(ns[i], DEFAULT_MAX_RETRIES, DEFAULT_RETRY_DELAY)
                    ELSE thr[b][i]]]
         /\ Suspend(b)
    ELSE /\ pc' = [pc EXCEPT ![b] = "done"]
         /\ thr' = thr
         /\ loop' = 0

\* The top of "for name in names" after k names are done: hand the next
\* name to a worker thread and await it, or leave the loop, log and return.
\* (log_results_to_file dumps the list as JSON; its values were parsed from
\* the upstream's JSON or are strings built here, so the dump succeeds.)
LoopTop(b, ns, k) ==
    IF k < Len(ns)
    THEN /\ pc' = [pc EXCEPT ![b] = "await_thread"]
         /\ thr' = [thr EXCEPT ![b][k + 1] =
                       StartThread(ns[k + 1], DEFAULT_MAX_RETRIES, DEFAULT_RETRY_DELAY)]
         /\ Suspend(b)
    ELSE /\ pc' = [pc EXCEPT ![b] = "done"]
         /\ thr' = thr
         /\ loop' = 0

\* The caller invokes the tool: the coroutine runs to its first await.
Invoke(b, ns) ==
    /\ boot = "ready"
    /\ b <= slots
    /\ pc[b] = "idle"
    /\ CanRun(b)
    /\ names' = [names EXCEPT ![b] = ns]
    /\ all_results' = [all_results EXCEPT ![b] = <<>>]
    /\ LoopTop(b, ns, 0)
    /\ UNCHANGED <<host, paused>>

\* Variants of Resume: the pacing sleep is skipped after a failed lookup;
\* the pacing sleep is skipped after the last name.
ResumeSkipsPauseOnError(b) ==
    /\ pc[b] = "await_thread"
    /\ CanRun(b)
    /\ LET i == Len(all_results[b]) + 1 IN
        /\ thr[b][i].pc = "returned"
        /\ all_results' = [all_results EXCEPT ![b] = Append(@, thr[b][i].result[1])]
        /\ IF "error" \in DOMAIN thr[b][i].result[1] /\ i < Len(names[b])
           THEN /\ pc' = [pc EXCEPT ![b] = "await_thread"]
                /\ thr' = [thr EXCEPT ![b][i] = JoinedThread,
                                      ![b][i + 1] = StartThread(names[b][i + 1],
                                          DEFAULT_MAX_RETRIES, DEFAULT_RETRY_DELAY)]
           ELSE /\ pc' = [pc EXCEPT ![b] = "await_sleep"]
                /\ thr' = [thr EXCEPT ![b][i] = JoinedThread]
    /\ Suspend(b)
    /\ UNCHANGED <<host, names, paused>>

ResumeSkipsLastPause(b) ==
    /\ pc[b] = "await_thread"
    /\ CanRun(b)
    /\ LET i == Len(all_results[b]) + 1 IN
        /\ thr[b][i].pc = "returned"
        /\ all_results' = [all_results EXCEPT ![b] = Append(@, thr[b][i].result[1])]
        /\ thr' = [thr EXCEPT ![b][i] = JoinedThread]
        /\ IF i < Len(names[b])
           THEN pc' = [pc EXCEPT ![b] = "await_sleep"] /\ Suspend(b)
           ELSE pc' = [pc EXCEPT ![b] = "done"] /\ loop' = 0
    /\ UNCHANGED <<host, names, paused>>

\* Variant of Resume: all_results is one list shared by the running batches.
ResumeSharedList(b) ==
    /\ pc[b] = "await_thread"
    /\ CanRun(b)
    /\ LET i == Len(all_results[b]) + 1 IN
        /\ thr[b][i].pc = "returned"
        /\ all_results' =
              [c \in Batches |->
                  IF c = b \/ pc[c] \in {"await_thread", "await_sleep"}
                  THEN Append(all_results[c], thr[b][i].result[1])
                  ELSE all_results[c]]
        /\ thr' = [thr EXCEPT ![b][i] = JoinedThread]
    /\ pc' = [pc EXCEPT ![b] = "await_sleep"]
    /\ Suspend(b)
    /\ UNCHANGED <<host, names, paused>>

\* The thread awaited by batch b has returned: append its result, then
\* await asyncio.sleep(PAUSE_BETWEEN_REQUESTS).
Resume(b) ==
    /\ pc[b] = "await_thread"
    /\ CanRun(b)
    /\ LET i == Len(all_results[b]) + 1 IN
        /\ thr[b][i].pc = "returned"
        /\ all_results' = [all_results EXCEPT ![b] = Append(@, thr[b][i].result[1])]
        /\ thr' = [thr EXCEPT ![b][i] = JoinedThread]
    /\ pc' = [pc EXCEPT ![b] = "await_sleep"]
    /\ Suspend(b)
    /\ UNCHANGED <<host, names, paused>>

\* The pacing sleep ends: next iteration, or log and return.
PauseDone(b) ==
    /\ pc[b] = "await_sleep"
    /\ CanRun(b)
    /\ paused' = [paused EXCEPT ![b] = @ + PAUSE_BETWEEN_REQUESTS]
    /\ LoopTop(b, names[b], Len(all_results[b]))
    /\ UNCHANGED <<host, names, all_results>>

\* The caller cancels the batch: CancelledError is raised at the await the
\* coroutine is suspended in.  A worker thread cannot be interrupted.
Cancel(b) ==
    /\ pc[b] \in {"await_thread", "await_sleep"}
    /\ CanRun(b)
    /\ pc' = [pc EXCEPT ![b] = "cancelled"]
    /\ loop' = 0
    /\ UNCHANGED <<host, names, all_results, paused, thr>>

\* ------------------------------------------------------ worker thread steps
Primary(b, i) ==
    /\ thr[b][i].pc = "primary"
    /\ \E r \in PrimaryResponses : thr' = [thr EXCEPT ![b][i] = DoPrimary(@, r)]
    /\ UNCHANGED <<host, loop, names, pc, all_results, paused>>

Secondary(b, i) ==
    /\ thr[b][i].pc = "secondary"
    /\ \E r \in SecondaryResponses : thr' = [thr EXCEPT ![b][i] = DoSecondary(@, r)]
    /\ UNCHANGED <<host, loop, names, pc, all_results, paused>>

Fetch(b, i) ==
    /\ thr[b][i].pc = "fetch"
    /\ \E r \in FetchResponses(thr[b][i].cid[1]) :
          thr' = [thr EXCEPT ![b][i] = DoFetch(@, r)]
    /\ UNCHANGED <<host, loop, names, pc, all_results, paused>>

RetrySleep(b, i) ==
    /\ thr[b][i].pc = "sleep"
    /\ thr' = [thr EXCEPT ![b][i] = DoRetrySleep(@)]
    /\ UNCHANGED <<host, loop, names, pc, all_results, paused>>

Next ==
    \/ \E b \in Batches, ns \in NameLists : Invoke(b, ns)
    \/ \E b \in Batches : Resume(b)
    \/ \E b \in Batches : PauseDone(b)
    \/ \E b \in Batches : Cancel(b)
    \/ \E b \in Batches, i \in Positions : Primary(b, i)
    \/ \E b \in Batches, i \in Positions : Secondary(b, i)
    \/ \E b \in Batches, i \in Positions : Fetch(b, i)
    \/ \E b \in Batches, i \in Positions : RetrySleep(b, i)

Spec == Init /\ [][Next]_vars

\* Spec with its scheduling: every upstream call returns or raises, every
\* sleep ends, and the event loop resumes a coroutine whose await is over.
\* The caller is free to invoke and to cancel or not.
FairSpec ==
    /\ Spec
    /\ \A b \in Batches : WF_vars(Resume(b)) /\ WF_vars(PauseDone(b))
    /\ \A b \in Batches, i \in Positions :
          /\ WF_vars(Primary(b, i)) /\ WF_vars(Secondary(b, i))
          /\ WF_vars(Fetch(b, i)) /\ WF_vars(RetrySleep(b, i))

\* --------------------------- a direct call of search_by_name_with_retries
InitLookup ==
    /\ slots = 0
    /\ settings = DefaultSettings
    /\ boot = "ready"
    /\ proxies = BuildProxies(DefaultSettings)
    /\ loop = 0
    /\ names = [b \in Batches |-> <<>>]
    /\ pc = [b \in Batches |-> "idle"]
    /\ all_results = [b \in Batches |-> <<>>]
    /\ paused = [b \in Batches |-> 0]
    /\ \E name \in Names, max_retries \in 1..MaxAttemptsBound :
          thr = [NoThreads EXCEPT ![1][1] =
                    StartThread(name, max_retries, DEFAULT_RETRY_DELAY)]

NextLookup ==
    \/ \E b \in Batches, i \in Positions : Primary(b, i)
    \/ \E b \in Batches, i \in Positions : Secondary(b, i)
    \/ \E b \in Batches, i \in Positions : Fetch(b, i)
    \/ \E b \in Batches, i \in Positions : RetrySleep(b, i)

SpecLookup == InitLookup /\ [][NextLookup]_vars

\* ------------------------------------------- the process from its start-up
\* Module start: config.ini is read and the global proxies is set; with
\* use_proxy the proxy is then checked, without it the server is ready.
Configure ==
    /\ boot = "start"
    /\ proxies' = BuildProxies(settings)
    /\ boot' = IF settings.use_proxy THEN "check" ELSE "ready"
    /\ UNCHANGED <<slots, settings, loop, names, pc, all_results, paused, thr>>

\* The identity check through the proxy returns or fails.
ProxyCheck(outcome) ==
    /\ boot = "check"
    /\ boot' = AfterProxyCheck(proxies, outcome).boot
    /\ proxies' = AfterProxyCheck(proxies, outcome).proxies
    /\ UNCHANGED <<slots, settings, loop, names, pc, all_results, paused, thr>>

InitTransport ==
    /\ slots = 1
    /\ settings \in SettingsChoices
    /\ boot = "start"
    /\ proxies = None
    /\ loop = 0
    /\ names = [b \in Batches |-> <<>>]
    /\ pc = [b \in Batches |-> "idle"]
    /\ all_results = [b \in Batches |-> <<>>]
    /\ paused = [b \in Batches |-> 0]
    /\ thr = NoThreads

\* (cancellation is left to Spec: it reads and writes nothing of the
\* transport)
NextTransport ==
    \/ Configure
    \/ \E outcome \in CheckOutcomes : ProxyCheck(outcome)
    \/ \E b \in Batches, ns \in NameLists : Invoke(b, ns)
    \/ \E b \in Batches : Resume(b)
    \/ \E b \in Batches : PauseDone(b)
    \/ \E b \in Batches, i \in Positions : Primary(b, i)
    \/ \E b \in Batches, i \in Positions : Secondary(b, i)
    \/ \E b \in Batches, i \in Positions : Fetch(b, i)
    \/ \E b \in Batches, i \in Positions : RetrySleep(b, i)

SpecTransport == InitTransport /\ [][NextTransport]_vars

\* ------------------------------------------- two tool invocations at once
\* The host permits two simultaneous invocations; the server runs with a
\* proxy configured.  The two callers each ask for one name.
ConcSettings ==
    [use_proxy |-> TRUE, proxy_type |-> "HTTP", host |-> "host.docker.internal",
     port |-> 8118]
ConcCall(b) == IF b % 2 = 1 THEN <<"Aspirin">> ELSE <<"Hydroxocobalamin">>

InitConc ==
    /\ slots = 2
    /\ settings = ConcSettings
    /\ boot = "ready"
    /\ proxies = BuildProxies(ConcSettings)
    /\ loop = 0
    /\ names = [b \in Batches |-> <<>>]
    /\ pc = [b \in Batches |-> "idle"]
    /\ all_results = [b \in Batches |-> <<>>]
    /\ paused = [b \in Batches |-> 0]
    /\ thr = NoThreads

\* (cancellation is left to Spec: it stops one coroutine and touches
\* nothing another batch reads)
NextConc ==
    \/ \E b \in Batches : Invoke(b, ConcCall(b))
    \/ \E b \in Batches : Resume(b)
    \/ \E b \in Batches : PauseDone(b)
    \/ \E b \in Batches, i \in Positions : Primary(b, i)
    \/ \E b \in Batches, i \in Positions : Secondary(b, i)
    \/ \E b \in Batches, i \in Positions : Fetch(b, i)
    \/ \E b \in Batches, i \in Positions : RetrySleep(b, i)

SpecConc == InitConc /\ [][NextConc]_vars

\* ===================================================================
\* Properties
\* ===================================================================
IsFailure(o) == "error" \in DOMAIN o
IsRecord(o) == "search_term" \in DOMAIN o /\ ~IsFailure(o)
OutcomeName(o) == IF IsFailure(o) THEN o.compound_name ELSE o.search_term
IsNotFound(o) ==
    IsFailure(o) /\ o.error.fmt = "Compound '{name}' not found in PubChem."
IsExhausted(o) ==
    IsFailure(o)
      /\ o.error.fmt = "Failed to get data for '{name}' after {max_retries} retries."

Slot == Batches \X Positions
T(s) == thr[s[1]][s[2]]
InFlightPcs == {"primary", "secondary", "fetch", "sleep"}
Ended(t) == t.pc = "returned"

\* entries of a lookup's history
EntryAt(t, k, op, res) == t.log[k].op = op /\ t.log[k].res = res
HasEntry(t, op, res) == \E k \in 1..Len(t.log) : EntryAt(t, k, op, res)
BusyOn(t, a) ==
    \E k \in 1..Len(t.log) :
        t.log[k].attempt = a /\ t.log[k].op # "sleep" /\ t.log[k].res = "busy"
ErrorSignals == {"busy", "http", "exc"}
\* a history entry after which the lookup returns
C3_Terminal(e) ==
    \/ e.res \in {"http", "exc", "ok", "unusable"}
    \/ e.op = "secondary" /\ e.res = "noid"

\* C1: a batch that returns (is not cancelled) returns exactly one outcome
\* per input name, and the outcome at position i carries names[i] as its
\* search_term (record) or compound_name (failure); the empty list gives
\* the empty list.
C1_OneOutcomePerName ==
    \A b \in Batches :
        pc[b] = "done" =>
            /\ Len(all_results[b]) = Len(names[b])
            /\ \A i \in 1..Len(names[b]) :
                  /\ IsFailure(all_results[b][i]) \/ IsRecord(all_results[b][i])
                  /\ OutcomeName(all_results[b][i]) = names[b][i]

C1_Witness ==
    \E b \in Batches :
        /\ pc[b] = "done"
        /\ Len(names[b]) = 2
        /\ names[b][1] # names[b][2]
        /\ IsRecord(all_results[b][1])
        /\ IsFailure(all_results[b][2])

\* C2: within a batch at most one lookup is in flight, and the lookup at
\* a later position has started only if every earlier one has returned.
C2_OneLookupInFlight ==
    \A b \in Batches :
        /\ Cardinality({i \in Positions : thr[b][i].pc \in InFlightPcs}) <= 1
        /\ \A i \in Positions, j \in Positions :
              (i < j /\ thr[b][j].pc # "idle")
                  => thr[b][i].pc \in {"returned", "joined"}

C2_Witness ==
    \E b \in Batches :
        /\ thr[b][1].pc = "joined"
        /\ thr[b][2].pc \in InFlightPcs
        /\ Len(thr[b][2].log) > 0

\* C3: a lookup starts attempt k+1 only after attempt k raised the
\* transient-busy error and k < max_retries; any other exception, a clean
\* not-found or a fetch result ends the lookup at that attempt.  Busy on
\* attempts 1 and 2 then success on attempt 3 returns a record when
\* max_retries = 3; busy on attempts 1 and 2 returns the retries-exhausted
\* failure when max_retries = 2; no lookup makes more than max_retries
\* attempts, and none gives up before.
C3_RetryOnlyOnBusy ==
    \A s \in Slot :
        LET t == T(s) IN
        /\ \A k \in 1..Len(t.log) :
              /\ t.log[k].attempt <= t.max_retries
              /\ t.log[k].attempt > 1 => BusyOn(t, t.log[k].attempt - 1)
              /\ C3_Terminal(t.log[k]) => (k = Len(t.log) /\ Ended(t))
        /\ t.pc \in InFlightPcs => t.attempt + 1 <= t.max_retries
        /\ (Ended(t) /\ t.max_retries = 2 /\ BusyOn(t, 1) /\ BusyOn(t, 2))
              => t.result[1] = ExhaustedOutcome(t.name, 2)
        /\ (Ended(t) /\ t.max_retries = 3 /\ BusyOn(t, 1) /\ BusyOn(t, 2)
              /\ Len(t.log) > 0 /\ t.log[Len(t.log)].attempt = 3
              /\ EntryAt(t, Len(t.log), "fetch", "ok"))
              => (IsRecord(t.result[1]) /\ t.result[1].search_term = t.name)
        /\ (Ended(t) /\ IsExhausted(t.result[1]))
              => \A a \in 1..t.max_retries : BusyOn(t, a)

C3_Witness ==
    \E s \in Slot :
        LET t == T(s) IN
        /\ Ended(t)
        /\ t.max_retries = 3
        /\ BusyOn(t, 1) /\ BusyOn(t, 2)
        /\ t.log[Len(t.log)].attempt = 3
        /\ IsRecord(t.result[1])

\* C4: whatever the upstream returns or raises, a lookup ends by returning
\* an outcome dict (it never raises), and a batch that has not been
\* cancelled keeps going: it is awaiting a live lookup, pacing, or done
\* with one outcome per name.
C4_FailuresAreData ==
    /\ \A s \in Slot :
          /\ T(s).pc \in InFlightPcs \cup {"idle", "returned", "joined"}
          /\ Ended(T(s)) =>
                /\ IsFailure(T(s).result[1]) \/ IsRecord(T(s).result[1])
                /\ OutcomeName(T(s).result[1]) = T(s).name
    /\ \A b \in Batches :
          /\ pc[b] \in {"idle", "await_thread", "await_sleep", "done", "cancelled"}
          /\ pc[b] = "await_thread" =>
                thr[b][Len(all_results[b]) + 1].pc \in InFlightPcs \cup {"returned"}
          /\ pc[b] = "await_sleep" => Len(all_results[b]) \in 1..Len(names[b])
          /\ (pc[b] \in {"done", "cancelled"} /\ Len(all_results[b]) < Len(names[b]))
                => pc[b] = "cancelled"

C4_Witness ==
    \E b \in Batches :
        /\ pc[b] = "done"
        /\ Len(names[b]) = 2
        /\ IsFailure(all_results[b][1])
        /\ all_results[b][1].error.fmt = "General error for '{name}': {str(e)}"
        /\ IsRecord(all_results[b][2])

\* C5 as stated: once an identifier has been resolved in a lookup, that
\* lookup makes no further attempt and no further primary- or
\* secondary-domain query, whatever the record fetch raises.
C5_Original_NoRetryAfterResolve ==
    \A s \in Slot :
        LET t == T(s) IN
        \A k \in 1..Len(t.log), l \in 1..Len(t.log) :
            (k < l /\ t.log[k].res = "id" /\ t.log[k].op \in {"primary", "secondary"})
                => /\ t.log[l].op = "fetch"
                   /\ t.log[l].attempt = t.log[k].attempt

\* C5 amended: a record fetch that returns, or raises anything but the
\* transient-busy error, ends the lookup at once (a failure outcome unless
\* the record was usable); a fetch that raises the transient-busy error is
\* retried like any busy attempt: the retry delay is slept and, while
\* attempts remain, the next attempt starts again with a primary query.
C5_FetchRetriedOnlyOnBusy ==
    \A s \in Slot :
        LET t == T(s) IN
        \A k \in 1..Len(t.log) :
            t.log[k].op = "fetch" =>
                IF t.log[k].res = "busy"
                THEN /\ k = Len(t.log) => t.pc = "sleep"
                     /\ k < Len(t.log) => EntryAt(t, k + 1, "sleep", "slept")
                     /\ k + 1 < Len(t.log) =>
                            /\ t.log[k + 2].op = "primary"
                            /\ t.log[k + 2].attempt = t.log[k].attempt + 1
                     /\ (k + 1 = Len(t.log) /\ t.log[k].attempt < t.max_retries)
                            => t.pc = "primary"
                ELSE /\ k = Len(t.log)
                     /\ Ended(t)
                     /\ t.log[k].res # "ok" => IsFailure(t.result[1])

C5_Witness ==
    \E s \in Slot :
        LET t == T(s) IN
        /\ Ended(t)
        /\ Len(t.log) = 2
        /\ EntryAt(t, 1, "primary", "id")
        /\ EntryAt(t, 2, "fetch", "http")
        /\ IsFailure(t.result[1])

C7_PacingBetweenNames ==
    \A b \in Batches :
        /\ \A j \in Positions :
              /\ thr[b][j].pc # "idle" => paused[b] >= (j - 1) * PAUSE_BETWEEN_REQUESTS
              /\ thr[b][j].pc \in InFlightPcs \cup {"returned"}
                    => paused[b] <= (j - 1) * PAUSE_BETWEEN_REQUESTS
        /\ pc[b] = "done" => paused[b] >= (Len(names[b]) - 1) * PAUSE_BETWEEN_REQUESTS

C7_Witness ==
    \E b \in Batches :
        /\ Len(names[b]) = 2
        /\ Len(all_results[b]) = 1
        /\ IsFailure(all_results[b][1])
        /\ thr[b][2].pc \in InFlightPcs
        /\ paused[b] = PAUSE_BETWEEN_REQUESTS

\* C8 as stated: once a batch is cancelled, nothing more is done on its
\* behalf: none of its lookups makes another upstream query, retry attempt
\* or retry sleep, and no new lookup is started.
C8_Original_CancelStopsAll ==
    [][\A b \in Batches : pc[b] = "cancelled" => thr'[b] = thr[b]]_vars

\* C9: a lookup in which no query raised and neither domain yielded an
\* identifier returns not-found after exactly one primary and one
\* secondary query: one attempt, no retry sleep.
C9_NotFoundInOnePass ==
    \A s \in Slot :
        LET t == T(s) IN
        (Ended(t) /\ \A k \in 1..Len(t.log) : t.log[k].res \notin ErrorSignals \cup {"id"})
            => /\ t.result[1] = NotFoundOutcome(t.name)
               /\ Len(t.log) = 2
               /\ EntryAt(t, 1, "primary", "noid") /\ t.log[1].attempt = 1
               /\ EntryAt(t, 2, "secondary", "noid") /\ t.log[2].attempt = 1
               /\ t.attempt = 0

C9_Witness ==
    \E s \in Slot :
        /\ Ended(T(s))
        /\ IsNotFound(T(s).result[1])
        /\ Len(T(s).log) = 2
        /\ ~HasEntry(T(s), "sleep", "slept")

\* C10: a secondary-domain query is issued only right after a primary
\* query of the same attempt that returned without an identifier; so a
\* lookup whose primary queries all returned a populated identifier
\* issues no secondary query.
C10_NoSecondaryAfterPrimaryId ==
    \A s \in Slot :
        LET t == T(s) IN
        /\ \A k \in 1..Len(t.log) :
              t.log[k].op = "secondary" =>
                  /\ k > 1
                  /\ EntryAt(t, k - 1, "primary", "noid")
                  /\ t.log[k - 1].attempt = t.log[k].attempt
        /\ (HasEntry(t, "primary", "id") /\ ~HasEntry(t, "primary", "noid"))
              => \A k \in 1..Len(t.log) : t.log[k].op # "secondary"
        /\ t.pc = "secondary" => EntryAt(t, Len(t.log), "primary", "noid")

C10_Witness ==
    \E s \in Slot :
        LET t == T(s) IN
        /\ Ended(t)
        /\ IsRecord(t.result[1])
        /\ HasEntry(t, "primary", "id")
        /\ t.attempt = 1
        /\ \A k \in 1..Len(t.log) : t.log[k].op # "secondary"

\* requests of a lookup: the entries of its history that are upstream calls
Requests(t) == {k \in 1..Len(t.log) : t.log[k].op # "sleep"}

\* C11: with use_proxy false, every outbound request of every lookup
\* (primary, secondary, record fetch) is made with proxies=None, whatever
\* proxy_type, host and port are configured.
C11_NoProxyWhenDisabled ==
    ~settings.use_proxy =>
        /\ proxies = None
        /\ boot # "check"
        /\ \A s \in Slot : \A k \in Requests(T(s)) : T(s).log[k].proxies = None

C11_Witness ==
    /\ ~settings.use_proxy
    /\ settings.proxy_type = "HTTP"
    /\ \E s \in Slot :
          /\ Ended(T(s))
          /\ \E k \in Requests(T(s)) : T(s).log[k].op = "primary"
          /\ \E k \in Requests(T(s)) : T(s).log[k].op = "secondary"
          /\ \E k \in Requests(T(s)) : T(s).log[k].op = "fetch"

RecordKeys == KeysToEnsure \cup {"search_term"}
FailureKeys == {"error", "compound_name"}
C12_Shape(o) == DOMAIN o = RecordKeys \/ DOMAIN o = FailureKeys
\* C12: every outcome, returned by a lookup or held in a batch's list, is
\* exactly one of two variants: a record (the keys of keys_to_ensure plus
\* search_term, no error) or a failure (error and compound_name only).
C12_OutcomeIsOneVariant ==
    /\ RecordKeys \cap FailureKeys = {}
    /\ \A b \in Batches : \A i \in 1..Len(all_results[b]) : C12_Shape(all_results[b][i])
    /\ \A s \in Slot : Ended(T(s)) => C12_Shape(T(s).result[1])

C12_Witness ==
    \E b \in Batches :
        /\ pc[b] = "done"
        /\ Len(all_results[b]) = 2
        /\ DOMAIN all_results[b][1] = FailureKeys
        /\ DOMAIN all_results[b][2] = RecordKeys
        /\ all_results[b][2]["iupac_name"] = None

ConfiguredProxies ==
    LET url == [scheme |-> IF Lower(settings.proxy_type) \in ValidProxyTypes
                           THEN Lower(settings.proxy_type) ELSE "socks5h",
                host |-> settings.host, port |-> settings.port]
    IN  Some([http |-> url, https |-> url])
\* C13: with use_proxy true, whatever the identity check returns or
\* raises, start-up ends with the server ready (the tool can be invoked)
\* and with the configured proxies in place, and every request of every
\* lookup is made with them.
C13_CheckNeverGates ==
    settings.use_proxy =>
        /\ boot \in {"start", "check", "ready"}
        /\ boot \in {"check", "ready"} => proxies = ConfiguredProxies
        /\ (boot = "ready" /\ pc[1] = "idle") => ENABLED Invoke(1, <<"Aspirin">>)
        /\ (\E b \in Batches : pc[b] # "idle") => boot = "ready"
        /\ \A s \in Slot : \A k \in Requests(T(s)) :
              T(s).log[k].proxies = ConfiguredProxies

C13_Witness ==
    /\ settings.use_proxy
    /\ settings.proxy_type = "ftp"
    /\ \E s \in Slot :
          /\ Ended(T(s))
          /\ \E k \in Requests(T(s)) :
                T(s).log[k].op = "fetch" /\ T(s).log[k].proxies # None

\* C19: with use_proxy true, the scheme of the proxies in force is one of
\* socks5h, socks5, http, https: the configured proxy_type in lower case
\* if that is one of them, socks5h otherwise; this holds from before the
\* first request on.
C19_SchemeIsValid ==
    (settings.use_proxy /\ boot # "start") =>
        /\ proxies # None
        /\ \A u \in {proxies[1].http, proxies[1].https} :
              /\ u.scheme \in {"socks5h", "socks5", "http", "https"}
              /\ settings.proxy_type = "ftp" => u.scheme = "socks5h"
              /\ settings.proxy_type = "HTTP" => u.scheme = "http"
              /\ settings.proxy_type = "socks5h" => u.scheme = "socks5h"
        /\ \A s \in Slot : \A k \in Requests(T(s)) :
              T(s).log[k].proxies[1].https.scheme \in {"socks5h", "socks5", "http", "https"}

C19_Witness ==
    /\ settings.use_proxy
    /\ settings.proxy_type = "ftp"
    /\ boot = "ready"
    /\ proxies[1].https.scheme = "socks5h"
    /\ \E s \in Slot : Requests(T(s)) # {}

Sleeps(t) == Cardinality({k \in 1..Len(t.log) : t.log[k].op = "sleep"})
\* C16 as stated: the retry delay is slept only between two attempts:
\* every retry sleep is followed by a further attempt, and a lookup whose
\* attempts all raise transient-busy sleeps max_retries - 1 times before
\* it returns the retries-exhausted failure.
C16_Original_DelayOnlyBetweenAttempts ==
    \A s \in Slot :
        LET t == T(s) IN
        /\ t.pc = "sleep" => t.attempt + 1 < t.max_retries
        /\ \A k \in 1..Len(t.log) :
              (t.log[k].op = "sleep" /\ k = Len(t.log)) => t.pc = "primary"
        /\ (Ended(t) /\ IsExhausted(t.result[1])) => Sleeps(t) = t.max_retries - 1

\* C17 as stated: when the primary domain gave no identifier and the
\* substance answer holds, at any position, an entry with a non-empty
\* identifier list, the lookup resolves an identifier and goes on to the
\* record fetch instead of reporting not-found.
C17_Original_AnyEntryResolves ==
    \A s \in Slot :
        LET t == T(s) IN
        \A k \in 1..Len(t.log) :
            (t.log[k].op = "secondary" /\ t.log[k].res \in {"id", "noid"}
                /\ t.log[k].any_id)
                => /\ t.log[k].res = "id"
                   /\ k = Len(t.log) => (t.pc = "fetch" /\ t.cid # None)
                   /\ ~(k = Len(t.log) /\ Ended(t) /\ IsNotFound(t.result[1]))

\* C20: a batch of n names that returns has slept exactly n pacing delays,
\* one after each appended outcome, the last included: after the last
\* outcome is appended the batch is still pacing, and it returns the list
\* only when that sleep is over.
C20_TrailingPause ==
    \A b \in Batches :
        /\ pc[b] = "done" =>
              paused[b] = Len(names[b]) * PAUSE_BETWEEN_REQUESTS
        /\ pc[b] = "await_sleep" =>
              paused[b] = (Len(all_results[b]) - 1) * PAUSE_BETWEEN_REQUESTS
        /\ (Len(names[b]) > 0 /\ Len(all_results[b]) = Len(names[b])
              /\ paused[b] < Len(names[b]) * PAUSE_BETWEEN_REQUESTS)
              => pc[b] \in {"await_sleep", "cancelled"}

C20_Witness ==
    \E b \in Batches :
        /\ pc[b] = "done"
        /\ Len(names[b]) = 2
        /\ Len(all_results[b]) = 2
        /\ paused[b] = 2 * PAUSE_BETWEEN_REQUESTS

C14_StepEnabled(b) ==
    CASE pc[b] = "idle" -> ENABLED Invoke(b, ConcCall(b))
      [] pc[b] = "await_sleep" -> ENABLED PauseDone(b)
      [] pc[b] = "await_thread" ->
            LET i == Len(all_results[b]) + 1 IN
            IF thr[b][i].pc = "returned"
            THEN ENABLED Resume(b)
            ELSE ENABLED (Primary(b, i) \/ Secondary(b, i) \/ Fetch(b, i)
                            \/ RetrySleep(b, i))
      [] OTHER -> TRUE
C18_AtRest ==
    /\ \A s \in Slot : T(s).pc \notin InFlightPcs
    /\ \A b \in Batches :
          /\ pc[b] \in {"idle", "done", "cancelled"}
          /\ pc[b] = "done" => Len(all_results[b]) = Len(names[b])
C18_AttemptsBounded ==
    \A s \in Slot :
        /\ T(s).attempt < T(s).max_retries \/ T(s).pc \in {"idle", "joined"}
        /\ \A k \in 1..Len(T(s).log) : T(s).log[k].attempt <= T(s).max_retries
\* C18: provided every upstream call returns or raises and every sleep
\* ends, no lookup makes more than max_retries attempts, and every
\* behaviour comes to rest with no lookup in flight and every invoked
\* batch either returned (its list complete) or cancelled by its caller.
C18_Terminates == []C18_AttemptsBounded /\ <>[]C18_AtRest

C18_Witness ==
    \E b \in Batches :
        /\ pc[b] = "done"
        /\ Len(names[b]) = 2
        /\ IsExhausted(all_results[b][1])
        /\ IsRecord(all_results[b][2])

====
